---- MODULE Spec2Model ----
(***************************************************************************)
(* A model of the on-demand ledger scans of the Iperchain explorer: the    *)
(* block listing, the transaction listing, the address page, the contract  *)
(* listing and the two "recent" components, each written from its React    *)
(* effect handler.  One page (or component) is mounted at a time; its      *)
(* state is the useState cells of the component.  The remote node is the   *)
(* variable ledger (fixed content) plus the outage chosen for each fetch.  *)
(***************************************************************************)
EXTENDS Integers, Sequences, FiniteSets, TLC

VARIABLES
    view,               \* the mounted page / component
    ledger,             \* the remote ledger: [head, blocks]
    address,            \* params.id of the address page
    currentPage,        \* useState(1) of the two listings
    blocks,             \* useState<Block[]>([])
    transactions,       \* useState<Transaction[]>([])
    contracts,          \* useState<Contract[]>([])
    addressDetails,     \* useState<AddressDetails | null>(null): <<>> for null, <<d>> for d
    txHash,             \* params.id of the transaction page
    blockId,            \* params.id of the block page
    transaction,        \* useState<TransactionDetails | null>(null), as a sequence too
    blockDetails,       \* useState<BlockDetails | null>(null) of the block page, likewise
    stats,              \* useState<NetworkStats | null>(null): <<>> for null, <<s>> for s
    latestBlockNumber,  \* useState(0) of the block listing
    totalTransactions,  \* useState(0) of the transaction listing
    loading,            \* useState(true)
    error,              \* useState<string | null>(null)
    effect,             \* TRUE while the effect of the last render has not run yet
    requested,          \* heights passed to getBlock by the last fetch, in call order
    calls,              \* the other web3Service methods the last fetch called, in call order
    failures,           \* the remote calls of the last fetch that threw, and the
                        \* receipts it was answered null for
    runs,               \* the calls of fetchRecentBlocks that have not returned or
                        \* still have remote calls unanswered (FlightSpec)
    inFlight            \* remote calls issued and not yet answered (FlightSpec)

vars == <<view, ledger, address, txHash, blockId, currentPage, blocks, transactions,
          contracts, addressDetails, transaction, blockDetails, stats,
          latestBlockNumber, totalTransactions, loading, error, effect, requested,
          calls, failures, runs, inFlight>>

----------------------------------------------------------------------------
(* Bounds of the model *)

\* highest head height of the ledgers the block views are run on
MaxHead == 41
\* highest head height of the ledgers the scans are run on under fairness
LiveHead == 2

\* head height of the longest ledger the scans are run on to meet their caps
DeepHead == 101

\* highest head height of the ledgers whose block fetches settle in every order
WindowHead == 4

\* highest head height of the ledgers a scan is followed on block by block
ScanHead == 3

\* highest head height of the ledgers the transaction scans are run on
MaxTxHead == 11
\* most transactions in an ordinary block
MaxPer == 2
\* transactions in the one full block (the head block), when the ledger has one
FatTxs == 26
\* how many of the newest heights may be unreachable during one fetch
FailDepth == 2
\* highest page the listings are driven to
MaxPageVisited == 3
\* highest head height of the ledgers the detail pages and the stats probe are run on
DetailHead == 2
\* highest head height of the ledgers of FlightSpec
FlightHead == 10
\* most calls of fetchRecentBlocks unfinished at once in FlightSpec
MaxRuns == 3

----------------------------------------------------------------------------
(* Program constants *)

BLOCKS_PER_PAGE == 20
TRANSACTIONS_PER_PAGE == 25
\* blocksToScan of the transaction listing
TxBlocksToScan == 50
\* "Rough estimation": heights skipped per page of the transaction listing
TxPageStride == 10
\* last page of the transaction listing
TxMaxPage == 100
\* Math.min(50, latestBlockNumber + 1) of the address scan
AddrBlocksToScan == 50
\* found-limit of the address scan
AddrLimit == 20
\* Math.min(100, latestBlockNumber + 1) of the contract scan
ContractBlocksToScan == 100
\* found-limit of the contract scan
ContractLimit == 20
\* window of the recent components
RecentWindow == 10
\* block.transactions.slice(0, 5)
RecentPerBlock == 5
\* allTransactions.slice(0, 10)
RecentLimit == 10
\* NETWORK_CONFIG.blockTime, in seconds
BlockTimeSec == 5

NULL == "null"
\* the hash of no transaction
NoTx == <<-1, -1>>

Max(a, b) == IF a >= b THEN a ELSE b
Min(a, b) == IF a <= b THEN a ELSE b

\* Array.prototype.slice(0, n)
Slice(s, n) == SubSeq(s, 1, Min(n, Len(s)))

----------------------------------------------------------------------------
(* The ledger node *)

\* String.prototype.toLowerCase on the address strings of the model
ToLowerCase(s) ==
    CASE s = "0xAB" -> "0xab"
      [] s = "0xCD" -> "0xcd"
      [] OTHER -> s

Flavours == {"transfer", "create", "createDup", "mixed"}

\* the transaction at position i of block h, as getBlock(h, true) embeds it
MkTx(h, i, flavour) ==
    CASE flavour = "transfer" ->
            [hash |-> <<h, i>>, from |-> "0xab", to |-> "0xcd"]
      [] flavour \in {"create", "createDup"} ->
            [hash |-> <<h, i>>, from |-> "0xcd", to |-> NULL]
      [] OTHER ->
            CASE i % 3 = 0 -> [hash |-> <<h, i>>, from |-> "0xAB", to |-> "0xcd"]
              [] i % 3 = 1 -> [hash |-> <<h, i>>, from |-> "0xcd", to |-> NULL]
              [] OTHER     -> [hash |-> <<h, i>>, from |-> "0xef", to |-> "0xab"]

\* a block as web3.eth.getBlock returns it
MkBlock(h, n, flavour) ==
    [number       |-> h,
     hash         |-> <<"block", h>>,
     timestamp    |-> h * BlockTimeSec,
     transactions |-> [k \in 1..n |-> MkTx(h, k - 1, flavour)]]

\* a ledger of head + 1 blocks: per transactions in each block, fat in the head block
MkLedger(head, per, fat, flavour) ==
    [head    |-> head,
     flavour |-> flavour,
     blocks  |-> [h \in 0..head |->
                    MkBlock(h, IF h = head /\ fat > 0 THEN fat ELSE per, flavour)]]

\* ledgers of the block views: only the heights matter
BlockLedgers == {MkLedger(h, 0, 0, "transfer") : h \in 0..MaxHead}

\* ledgers of the transaction scans, with transactions of the given flavours
TxLedgers(flavours) ==
    {MkLedger(h, p, f, fl) : h \in 0..MaxTxHead, p \in 0..MaxPer,
                             f \in {0, FatTxs}, fl \in flavours}

\* ledgers of the detail pages and of the stats probe
DetailLedgers == {MkLedger(h, p, 0, "mixed") : h \in 0..DetailHead, p \in 0..MaxPer}

\* the ledgers a view is run on: a scan sees sender and recipient only where it filters
LedgersOf(v) ==
    CASE v \in {"blocks", "recentBlocks"} -> BlockLedgers
      [] v \in {"tx", "block", "stats"} -> DetailLedgers
      [] v \in {"transactions", "recentTx"} -> TxLedgers({"mixed"})
      [] v = "address" -> TxLedgers({"transfer", "mixed"})
      [] OTHER -> TxLedgers({"create", "createDup", "mixed"})

\* the receipt of a mined transaction
Receipt(L, tx) ==
    [status  |-> IF tx.hash[2] % 4 = 3 THEN 0 ELSE 1,
     gasUsed |-> 21000,
     contractAddress |->
        IF tx.to # NULL THEN NULL
        ELSE IF L.flavour = "createDup" THEN "0xc" \o ToString(tx.hash[2])
        ELSE "0xc" \o ToString(tx.hash[1]) \o "_" \o ToString(tx.hash[2])]

\* no outage: every remote call answers, every receipt is present
NoOutage == [head |-> FALSE, blocks |-> {}, receipt |-> NoTx, absent |-> NoTx]

\* the outages one fetch is run under: the head query throws, or getBlock throws for
\* some of the newest heights, one receipt query throws, one receipt is absent
Outages(L) ==
    {[head |-> FALSE, blocks |-> bs, receipt |-> r, absent |-> a] :
        bs \in SUBSET {h \in 0..L.head : h > L.head - FailDepth},
        r \in {NoTx, <<L.head, 1>>},
        a \in {NoTx, <<L.head, 0>>}}
    \cup {[NoOutage EXCEPT !.head = TRUE]}

----------------------------------------------------------------------------
(* web3Service *)

\* whether web3Service.getBlock(blockNumber, true) yields a block (null above the head)
HasBlock(L, blockNumber) == blockNumber \in DOMAIN L.blocks

\* web3Service.getBlock(blockNumber, true), for a height the ledger holds
GetBlock(L, blockNumber) == L.blocks[blockNumber]

\* web3Service.getCode(address): "0x" unless the address holds a contract
GetCode(a) ==
    IF a \in {"0xab", "0xAB", "0xcd", "0xCD", "0xef", "0xzz"} THEN "0x" ELSE "0x6080"

\* web3Service.isValidAddress(address)
IsValidAddress(a) == a \in {"0xab", "0xAB", "0xcd", "0xCD", "0xef", "0xc0"}

\* comparator of allTransactions.sort (transaction listing)
CmpBlockThenIndex(a, b) ==
    IF a.blockNumber # b.blockNumber THEN b.blockNumber - a.blockNumber
    ELSE b.transactionIndex - a.transactionIndex

\* comparator of foundTransactions.sort (address page)
CmpTimestamp(a, b) == b.timestamp - a.timestamp

\* comparator of uniqueContracts.sort (contract listing)
CmpDeployment(a, b) == b.deploymentTimestamp - a.deploymentTimestamp

\* the comparator named cmp, applied to a and b
Compare(cmp, a, b) ==
    CASE cmp = "blockThenIndex" -> CmpBlockThenIndex(a, b)
      [] cmp = "timestamp" -> CmpTimestamp(a, b)
      [] OTHER -> CmpDeployment(a, b)

RECURSIVE InsertAt(_, _, _, _)
\* how many of the first k elements of the sorted s stay before e: those not ordered after it
InsertAt(cmp, s, e, k) ==
    IF k = 0 \/ Compare(cmp, s[k], e) <= 0 THEN k ELSE InsertAt(cmp, s, e, k - 1)

RECURSIVE SortBy(_, _)
\* Array.prototype.sort with the comparator named cmp (stable: equal elements keep their order)
SortBy(cmp, s) ==
    IF s = <<>> THEN s
    ELSE LET n == Len(s)
             front == SortBy(cmp, SubSeq(s, 1, n - 1))
             k == InsertAt(cmp, front, s[n], n - 1)
         IN  SubSeq(front, 1, k) \o <<s[n]>> \o SubSeq(front, k + 1, n - 1)

\* what a scan accumulates: its list, and the remote calls it made
EmptyScan ==
    [list |-> <<>>, found |-> 0, requested |-> <<>>, threw |-> FALSE,
     failedBlocks |-> <<>>, failedReceipts |-> <<>>, absentReceipts |-> <<>>]

\* the thrown remote calls of one fetch: the head query, an account query
\* (getBalance, getCode), getBlock by height, getTransactionReceipt by hash;
\* absent: the hashes getTransactionReceipt returned null for; lookup: the
\* methods of a detail lookup or of the stats probe that threw
NoFailures ==
    [head |-> FALSE, account |-> <<>>, blocks |-> <<>>, receipts |-> <<>>,
     absent |-> <<>>, lookup |-> <<>>]

\* the record the transaction listing pushes for tx, position index of block
TxPageRecord(L, out, block, tx, index) ==
    LET absent == tx.hash = out.absent
        receipt == Receipt(L, tx)
    IN  [hash             |-> tx.hash,
         blockNumber      |-> block.number,
         timestamp        |-> block.timestamp,
         from             |-> tx.from,
         to               |-> tx.to,
         gasUsed          |-> IF ~absent THEN receipt.gasUsed ELSE 0,
         status           |-> IF ~absent THEN receipt.status ELSE 1,
         transactionIndex |-> index]

\* TxRecord with a missing receipt read as a failed transaction
TxRecord_AbsentFailed(L, out, block, tx) ==
    LET absent == tx.hash = out.absent
        receipt == Receipt(L, tx)
    IN  [hash        |-> tx.hash,
         blockNumber |-> block.number,
         timestamp   |-> block.timestamp,
         from        |-> tx.from,
         to          |-> tx.to,
         gasUsed     |-> IF ~absent THEN receipt.gasUsed ELSE 0,
         status      |-> IF ~absent THEN receipt.status ELSE 0]

\* the record the address scan and the recent-transactions scan push for tx
TxRecord(L, out, block, tx) ==
    LET absent == tx.hash = out.absent
        receipt == Receipt(L, tx)
    IN  [hash        |-> tx.hash,
         blockNumber |-> block.number,
         timestamp   |-> block.timestamp,
         from        |-> tx.from,
         to          |-> tx.to,
         gasUsed     |-> IF ~absent THEN receipt.gasUsed ELSE 0,
         status      |-> IF ~absent THEN receipt.status ELSE 1]

----------------------------------------------------------------------------
(* Transaction listing: app/transactions/page.tsx *)

RECURSIVE TxPageTxs(_, _, _, _, _)
\* for (const [index, tx] of block.transactions.entries()), from position index
TxPageTxs(L, out, block, index, acc) ==
    IF index >= Len(block.transactions) THEN acc
    ELSE LET tx == block.transactions[index + 1] IN
         IF tx.hash = out.receipt
         THEN TxPageTxs(L, out, block, index + 1, [acc EXCEPT !.failedReceipts = Append(@, tx.hash)])
         ELSE LET pushed == [acc EXCEPT
                                !.list = Append(@, TxPageRecord(L, out, block, tx, index)),
                                !.found = @ + 1,
                                !.absentReceipts =
                                    IF tx.hash = out.absent THEN Append(@, tx.hash) ELSE @]
              IN  IF pushed.found >= TRANSACTIONS_PER_PAGE THEN pushed
                  ELSE TxPageTxs(L, out, block, index + 1, pushed)

RECURSIVE TxPageBlocks(_, _, _, _, _)
\* while (transactionsFound < TRANSACTIONS_PER_PAGE && blockIndex < blocksToScan)
TxPageBlocks(L, out, startBlock, blockIndex, acc) ==
    IF ~(acc.found < TRANSACTIONS_PER_PAGE /\ blockIndex < TxBlocksToScan) THEN acc
    ELSE LET blockNumber == Max(0, startBlock - blockIndex)
             asked == [acc EXCEPT !.requested = Append(@, blockNumber)]
             after ==
                IF blockNumber \in out.blocks THEN [asked EXCEPT !.failedBlocks = Append(@, blockNumber)]
                ELSE IF ~HasBlock(L, blockNumber) THEN asked
                ELSE TxPageTxs(L, out, GetBlock(L, blockNumber), 0, asked)
         IN  TxPageBlocks(L, out, startBlock, blockIndex + 1, after)

\* the scan of fetchTransactions for one page, head query done
TxPageScan(L, out, page) ==
    LET startBlock == L.head - ((page - 1) * TxPageStride)
        acc == TxPageBlocks(L, out, startBlock, 0, EmptyScan)
    IN  [acc EXCEPT !.list = SortBy("blockThenIndex", @)]

----------------------------------------------------------------------------
(* Address page: app/address/[id]/page.tsx *)

\* Involves with the strings compared as they are
Involves_CaseSensitive(tx, addr) == tx.from = addr \/ (tx.to # NULL /\ tx.to = addr)

\* tx.from.toLowerCase() === addr.toLowerCase() || (tx.to && tx.to.toLowerCase() === ...)
Involves(tx, addr) ==
    \/ ToLowerCase(tx.from) = ToLowerCase(addr)
    \/ tx.to # NULL /\ ToLowerCase(tx.to) = ToLowerCase(addr)

RECURSIVE AddrTxs(_, _, _, _, _, _)
\* for (const tx of block.transactions), from position index
AddrTxs(L, out, addr, block, index, acc) ==
    IF index >= Len(block.transactions) THEN acc
    ELSE LET tx == block.transactions[index + 1] IN
         IF ~Involves(tx, addr) THEN AddrTxs(L, out, addr, block, index + 1, acc)
         ELSE IF tx.hash = out.receipt
         THEN AddrTxs(L, out, addr, block, index + 1, [acc EXCEPT !.failedReceipts = Append(@, tx.hash)])
         ELSE AddrTxs(L, out, addr, block, index + 1,
                      [acc EXCEPT !.list = Append(@, TxRecord(L, out, block, tx)),
                                  !.absentReceipts =
                                      IF tx.hash = out.absent THEN Append(@, tx.hash) ELSE @])

\* foundTransactions after the body of the for loop of fetchTransactions at counter i
AddrBlockStep(L, out, addr, i, acc) ==
    LET blockNumber == L.head - i
        asked == [acc EXCEPT !.requested = Append(@, blockNumber)]
    IN  IF blockNumber < 0 THEN acc
        ELSE IF blockNumber \in out.blocks THEN [asked EXCEPT !.failedBlocks = Append(@, blockNumber)]
        ELSE IF ~HasBlock(L, blockNumber) THEN asked
        ELSE AddrTxs(L, out, addr, GetBlock(L, blockNumber), 0, asked)

RECURSIVE AddrBlocks(_, _, _, _, _)
\* for (let i = 0; i < blocksToScan; i++) { ...; if (length >= 20) break }
AddrBlocks(L, out, addr, i, acc) ==
    IF i >= Min(AddrBlocksToScan, L.head + 1) THEN acc
    ELSE LET after == AddrBlockStep(L, out, addr, i, acc)
         IN  IF Len(after.list) >= AddrLimit THEN after
             ELSE AddrBlocks(L, out, addr, i + 1, after)

\* the scan of fetchTransactions(addr), head query done
AddrScan(L, out, addr) ==
    LET acc == AddrBlocks(L, out, addr, 0, EmptyScan)
    IN  [acc EXCEPT !.list = SortBy("timestamp", @)]

\* web3Service.getBalance(address), in ether
GetBalance(a) == IF a = "0xab" THEN "1.5" ELSE "0"

\* which of the three account queries of Promise.all throws
AccountOutages == {"none", "balance", "isContract", "code"}

\* the outages of one fetchAddressDetails: of its account queries, or of its scan
AddressOutages(L) ==
    {<<out, "none">> : out \in Outages(L)} \cup {<<NoOutage, a>> : a \in AccountOutages}

\* web3Service.isContract(address): false when its getCode throws
IsContract(a, acct) == IF acct = "isContract" THEN FALSE ELSE GetCode(a) # "0x"

\* the AddressDetails fetchAddressDetails builds
MkAddressDetails(a, acct) ==
    [address          |-> a,
     balance          |-> GetBalance(a),
     isContract       |-> IsContract(a, acct),
     code             |-> IF IsContract(a, acct) THEN GetCode(a) ELSE NULL,
     transactionCount |-> 0]

----------------------------------------------------------------------------
(* Contract listing: app/contracts/page.tsx *)

\* the Contract pushed for deployment tx of block
ContractRecord(L, block, tx) ==
    LET receipt == Receipt(L, tx)
        code == GetCode(receipt.contractAddress)
    IN  [address             |-> receipt.contractAddress,
         deploymentTxHash    |-> tx.hash,
         deploymentBlock     |-> block.number,
         deploymentTimestamp |-> block.timestamp,
         creator             |-> tx.from,
         transactionCount    |-> 0,
         codeSize            |-> (Len(code) - 2) \div 2]

RECURSIVE ContractTxs(_, _, _, _, _)
\* for (const tx of block.transactions), from position index
ContractTxs(L, out, block, index, acc) ==
    IF index >= Len(block.transactions) THEN acc
    ELSE LET tx == block.transactions[index + 1] IN
         IF tx.to # NULL THEN ContractTxs(L, out, block, index + 1, acc)
         ELSE IF tx.hash = out.receipt
         THEN ContractTxs(L, out, block, index + 1, [acc EXCEPT !.failedReceipts = Append(@, tx.hash)])
         ELSE IF tx.hash = out.absent
         THEN ContractTxs(L, out, block, index + 1, [acc EXCEPT !.absentReceipts = Append(@, tx.hash)])
         ELSE IF Receipt(L, tx).contractAddress = NULL
                 \/ GetCode(Receipt(L, tx).contractAddress) = "0x"
         THEN ContractTxs(L, out, block, index + 1, acc)
         ELSE ContractTxs(L, out, block, index + 1,
                          [acc EXCEPT !.list = Append(@, ContractRecord(L, block, tx))])

\* foundContracts after the body of the for loop of fetchContracts at counter i
ContractBlockStep(L, out, i, acc) ==
    LET blockNumber == L.head - i
        asked == [acc EXCEPT !.requested = Append(@, blockNumber)]
    IN  IF blockNumber < 0 THEN acc
        ELSE IF blockNumber \in out.blocks THEN [asked EXCEPT !.failedBlocks = Append(@, blockNumber)]
        ELSE IF ~HasBlock(L, blockNumber) THEN asked
        ELSE ContractTxs(L, out, GetBlock(L, blockNumber), 0, asked)

RECURSIVE ContractBlocks_NoCap(_, _, _, _)
\* ContractBlocks scanning down to the genesis block
ContractBlocks_NoCap(L, out, i, acc) ==
    IF i >= L.head + 1 THEN acc
    ELSE LET after == ContractBlockStep(L, out, i, acc)
         IN  IF Len(after.list) >= ContractLimit THEN after
             ELSE ContractBlocks_NoCap(L, out, i + 1, after)

RECURSIVE ContractBlocks(_, _, _, _)
\* for (let i = 0; i < blocksToScan; i++) { ...; if (length >= 20) break }
ContractBlocks(L, out, i, acc) ==
    IF i >= Min(ContractBlocksToScan, L.head + 1) THEN acc
    ELSE LET after == ContractBlockStep(L, out, i, acc)
         IN  IF Len(after.list) >= ContractLimit THEN after
             ELSE ContractBlocks(L, out, i + 1, after)

\* UniqueByAddress with the filter left out
UniqueByAddress_KeepAll(s) == s

\* UniqueByAddress keeping the last record of each address instead of the first
UniqueByAddress_KeepLast(s) ==
    LET kept == SelectSeq([i \in 1..Len(s) |-> i],
                          LAMBDA i : \A j \in (i + 1)..Len(s) : s[j].address # s[i].address)
    IN  [p \in 1..Len(kept) |-> s[kept[p]]]

\* foundContracts.filter((c, index, self) => index === self.findIndex(same address))
UniqueByAddress(s) ==
    LET kept == SelectSeq([i \in 1..Len(s) |-> i],
                          LAMBDA i : \A j \in 1..(i - 1) : s[j].address # s[i].address)
    IN  [p \in 1..Len(kept) |-> s[kept[p]]]

\* the scan of fetchContracts, head query done
ContractScan(L, out) ==
    LET acc == ContractBlocks(L, out, 0, EmptyScan)
    IN  [acc EXCEPT !.list = SortBy("deployment", UniqueByAddress(@))]

----------------------------------------------------------------------------
(* Recent transactions: components/RecentTransactions.tsx *)

\* RecentTxs leaving the block at the first receipt query that throws
RecentTxs_LeaveBlock(L, out, block, txs, acc) ==
    LET firstFailed == SelectSeq([k \in 1..Len(txs) |-> k],
                                 LAMBDA k : txs[k].hash = out.receipt)
        taken == IF firstFailed = <<>> THEN txs ELSE SubSeq(txs, 1, firstFailed[1] - 1)
    IN  [acc EXCEPT
            !.list = @ \o [k \in 1..Len(taken) |-> TxRecord(L, out, block, taken[k])],
            !.failedReceipts = IF firstFailed = <<>> THEN @ ELSE Append(@, out.receipt),
            !.absentReceipts =
                @ \o SelectSeq([k \in 1..Len(taken) |-> taken[k].hash],
                               LAMBDA h : h = out.absent)]

RECURSIVE RecentTxs(_, _, _, _, _)
\* for (const tx of block.transactions.slice(0, 5)); txs is the slice
RecentTxs(L, out, block, txs, acc) ==
    IF txs = <<>> THEN acc
    ELSE LET tx == Head(txs) IN
         IF tx.hash = out.receipt
         THEN RecentTxs(L, out, block, Tail(txs), [acc EXCEPT !.failedReceipts = Append(@, tx.hash)])
         ELSE RecentTxs(L, out, block, Tail(txs),
                        [acc EXCEPT !.list = Append(@, TxRecord(L, out, block, tx)),
                                    !.absentReceipts =
                                        IF tx.hash = out.absent THEN Append(@, tx.hash) ELSE @])

RECURSIVE RecentBlocksLoop(_, _, _, _)
\* for (let i = 0; i < 10 && blocksChecked < 10; i++); acc.found counts blocksChecked
RecentBlocksLoop(L, out, i, acc) ==
    IF ~(i < RecentWindow /\ acc.found < RecentWindow) THEN acc
    ELSE LET blockNumber == L.head - i
             asked == [acc EXCEPT !.requested = Append(@, blockNumber),
                                  !.found = @ + 1]
         IN  IF blockNumber < 0 THEN RecentBlocksLoop(L, out, i + 1, acc)
             ELSE IF blockNumber \in out.blocks
             THEN [asked EXCEPT !.failedBlocks = Append(@, blockNumber), !.threw = TRUE]
             ELSE LET after ==
                        IF ~HasBlock(L, blockNumber) THEN asked
                        ELSE RecentTxs(L, out, GetBlock(L, blockNumber),
                                       Slice(GetBlock(L, blockNumber).transactions,
                                             RecentPerBlock), asked)
                  IN  IF Len(after.list) >= RecentLimit THEN after
                      ELSE RecentBlocksLoop(L, out, i + 1, after)

\* RecentTruncate with the final slice forgotten
RecentTruncate_NoSlice(s) == s

\* allTransactions.slice(0, 10)
RecentTruncate(s) == Slice(s, RecentLimit)

\* the scan of fetchRecentTransactions, head query done
RecentTxScan(L, out) ==
    LET acc == RecentBlocksLoop(L, out, 0, EmptyScan)
    IN  [acc EXCEPT !.list = RecentTruncate(@)]

----------------------------------------------------------------------------
(* Block windows: app/blocks/page.tsx and components/RecentBlocks.tsx *)

\* the Block both block views keep of a fetched block
FormatBlock(block) ==
    [number    |-> block.number,
     hash      |-> block.hash,
     timestamp |-> block.timestamp,
     txCount   |-> Len(block.transactions)]

\* the heights from, from - 1, ..., to that are >= 0, in that order
Descending(from, to) ==
    LET hs == {h \in to..from : h >= 0}
    IN  [k \in 1..Cardinality(hs) |-> from - (k - 1)]

\* BlockPageHeights with endBlock one too low: a page of BLOCKS_PER_PAGE + 1 heights
BlockPageHeights_OffByOne(latest, page) ==
    LET startBlock == latest - ((page - 1) * BLOCKS_PER_PAGE)
        endBlock == Max(0, startBlock - BLOCKS_PER_PAGE)
    IN  Descending(startBlock, endBlock)

\* heights pushed to blockPromises by fetchBlocks for a page
BlockPageHeights(latest, page) ==
    LET startBlock == latest - ((page - 1) * BLOCKS_PER_PAGE)
        endBlock == Max(0, startBlock - BLOCKS_PER_PAGE + 1)
    IN  Descending(startBlock, endBlock)

\* heights pushed to blockPromises by fetchRecentBlocks
RecentBlockHeights(latest) == Descending(latest, Max(0, latest - RecentWindow + 1))

\* await Promise.all(blockPromises), then filter and map
BlockWindow(L, out, heights) ==
    LET failing == SelectSeq(heights, LAMBDA h : h \in out.blocks)
        present == SelectSeq(heights, LAMBDA h : HasBlock(L, h))
    IN  [list           |-> [k \in 1..Len(present) |->
                                FormatBlock(GetBlock(L, present[k]))],
         found          |-> 0,
         requested      |-> heights,
         threw          |-> failing # <<>>,
         failedBlocks   |-> failing,
         failedReceipts |-> <<>>,
         absentReceipts |-> <<>>]

----------------------------------------------------------------------------
(* Transaction page: TransactionDetailPage *)

\* [a-fA-F0-9]; a string of the two detail pages is a sequence of characters
HexDigits ==
    {"0", "1", "2", "3", "4", "5", "6", "7", "8", "9",
     "a", "b", "c", "d", "e", "f", "A", "B", "C", "D", "E", "F"}

\* {64}: the hexadecimal digits of a hash
HashDigits == 64

\* IsValidTxHash testing the prefix only
IsValidTxHash_PrefixOnly(h) == Len(h) >= 2 /\ h[1] = "0" /\ h[2] = "x"

\* web3Service.isValidTxHash(hash): /^0x[a-fA-F0-9]{64}$/.test(hash)
IsValidTxHash(h) ==
    /\ Len(h) = 2 + HashDigits
    /\ h[1] = "0" /\ h[2] = "x"
    /\ \A i \in 3..Len(h) : h[i] \in HexDigits

\* the hexadecimal digit of n < 16
HexDigit(n) ==
    <<"0", "1", "2", "3", "4", "5", "6", "7", "8", "9", "a", "b", "c", "d", "e", "f">>[n + 1]

\* "0x" followed by n times the character c, then the characters of tail
Padded(c, n, tail) == <<"0", "x">> \o [k \in 1..n |-> c] \o tail

\* the hash string of the transaction at position hash[2] of block hash[1]
HashText(hash) == Padded("0", HashDigits - 3, <<"7", HexDigit(hash[1]), HexDigit(hash[2])>>)

\* the positions <<height, index>> of the transactions of L whose hash string is h
TxAt(L, h) ==
    {pos \in (0..L.head) \X (0..MaxPer) :
        /\ pos[2] < Len(L.blocks[pos[1]].transactions)
        /\ HashText(<<pos[1], pos[2]>>) = h}

\* web3Service.getTransaction(hash), for a hash the ledger holds
GetTransaction(L, h) ==
    LET pos == CHOOSE q \in TxAt(L, h) : TRUE
    IN  [tx          |-> L.blocks[pos[1]].transactions[pos[2] + 1],
         blockNumber |-> pos[1],
         index       |-> pos[2]]

\* what one fetchTransaction is run under: one of its calls throws, or the
\* receipt of the transaction is not there yet
TxLookupOutages == {"none", "getTransaction", "getTransactionReceipt", "getBlock", "noReceipt"}

\* the TransactionDetails fetchTransaction builds
MkTransactionDetails(L, found) ==
    LET receipt == Receipt(L, found.tx)
    IN  [hash             |-> found.tx.hash,
         blockNumber      |-> found.blockNumber,
         transactionIndex |-> found.index,
         timestamp        |-> GetBlock(L, found.blockNumber).timestamp,
         from             |-> found.tx.from,
         to               |-> found.tx.to,
         gasUsed          |-> receipt.gasUsed,
         status           |-> receipt.status,
         contractAddress  |-> receipt.contractAddress]

\* how a lookup ended: the error it set, the value it stored, the calls it made
Outcome(err, value, called, heights, threw) ==
    [error |-> err, value |-> value, calls |-> called, requested |-> heights,
     threw |-> threw]

\* FetchTransactionOutcome reporting a missing transaction as a failed fetch
FetchTransactionOutcome_NoNotFound(L, h, out) ==
    LET both == <<"getTransaction", "getTransactionReceipt">> IN
    IF ~IsValidTxHash(h)
    THEN Outcome("Invalid transaction hash format", NULL, <<>>, <<>>, <<>>)
    ELSE IF out \in {"getTransaction", "getTransactionReceipt"}
    THEN Outcome("Failed to fetch transaction details", NULL, both, <<>>, <<out>>)
    ELSE IF TxAt(L, h) = {}
    THEN Outcome("Failed to fetch transaction details", NULL, both, <<>>, <<>>)
    ELSE IF out = "noReceipt"
    THEN Outcome("Transaction receipt not found", NULL, both, <<>>, <<>>)
    ELSE LET found == GetTransaction(L, h) IN
         IF out = "getBlock"
         THEN Outcome("Failed to fetch transaction details", NULL, both,
                      <<found.blockNumber>>, <<"getBlock">>)
         ELSE Outcome(NULL, MkTransactionDetails(L, found), both,
                      <<found.blockNumber>>, <<>>)

\* the body of fetchTransaction for hash h
FetchTransactionOutcome(L, h, out) ==
    LET both == <<"getTransaction", "getTransactionReceipt">> IN
    IF ~IsValidTxHash(h)
    THEN Outcome("Invalid transaction hash format", NULL, <<>>, <<>>, <<>>)
    ELSE IF out \in {"getTransaction", "getTransactionReceipt"}
    THEN Outcome("Failed to fetch transaction details", NULL, both, <<>>, <<out>>)
    ELSE IF TxAt(L, h) = {}
    THEN Outcome("Transaction not found", NULL, both, <<>>, <<>>)
    ELSE IF out = "noReceipt"
    THEN Outcome("Transaction receipt not found", NULL, both, <<>>, <<>>)
    ELSE LET found == GetTransaction(L, h) IN
         IF out = "getBlock"
         THEN Outcome("Failed to fetch transaction details", NULL, both,
                      <<found.blockNumber>>, <<"getBlock">>)
         ELSE Outcome(NULL, MkTransactionDetails(L, found), both,
                      <<found.blockNumber>>, <<>>)

----------------------------------------------------------------------------
(* Block page: app/block/[id]/page.tsx *)

\* \d
Digits == {"0", "1", "2", "3", "4", "5", "6", "7", "8", "9"}

\* /^\d+$/.test(blockId)
IsDecimal(id) == Len(id) >= 1 /\ \A i \in 1..Len(id) : id[i] \in Digits

RECURSIVE ParseInt(_)
\* parseInt(blockId), for a string of decimal digits
ParseInt(id) ==
    IF id = <<>> THEN 0
    ELSE 10 * ParseInt(SubSeq(id, 1, Len(id) - 1))
         + (CHOOSE n \in 0..9 : HexDigit(n) = id[Len(id)])

\* the hash string of the block at height h
BlockHashText(h) == Padded("0", HashDigits - 2, <<"b", HexDigit(h)>>)

\* the block tag the service's getBlock is typed for
Latest == <<"l", "a", "t", "e", "s", "t">>

\* whether web3.eth.getBlock takes id: a height, a block tag or a 32-byte hash;
\* anything else is refused with an error that the service rethrows
IsBlockIdentifier(id) == IsDecimal(id) \/ id = Latest \/ IsValidTxHash(id)

\* the heights of the blocks web3Service.getBlock(id, true) answers with: none
\* when it answers null
BlocksAt(L, id) ==
    IF IsDecimal(id) THEN {h \in 0..L.head : h = ParseInt(id)}
    ELSE IF id = Latest THEN {L.head}
    ELSE {h \in 0..L.head : BlockHashText(h) = id}

\* whether getBlock throws during one fetchBlock
BlockLookupOutages == {"none", "getBlock"}

\* the BlockDetails fetchBlock builds
MkBlockDetails(b) ==
    [number       |-> b.number,
     hash         |-> BlockHashText(b.number),
     timestamp    |-> b.timestamp,
     transactions |-> b.transactions]

\* the body of fetchBlock for params.id = id
FetchBlockOutcome(L, id, out) ==
    LET blockIdentifier == IF IsDecimal(id) THEN ParseInt(id) ELSE id IN
    IF out = "getBlock" \/ ~IsBlockIdentifier(id)
    THEN Outcome("Failed to fetch block details", NULL, <<>>, <<blockIdentifier>>,
                 <<"getBlock">>)
    ELSE IF BlocksAt(L, id) = {}
    THEN Outcome("Block not found", NULL, <<>>, <<blockIdentifier>>, <<>>)
    ELSE Outcome(NULL, MkBlockDetails(GetBlock(L, CHOOSE h \in BlocksAt(L, id) : TRUE)),
                 <<>>, <<blockIdentifier>>, <<>>)

----------------------------------------------------------------------------
(* Network statistics: components/NetworkStats.tsx and getNetworkStats *)

\* the three sub-queries of Promise.all in getNetworkStats, in call order
StatsQueries == <<"getBlock", "getGasPrice", "getPeerCount">>

\* the sub-queries that throw during one probe: any of the three
StatsOutages == SUBSET {StatsQueries[k] : k \in 1..Len(StatsQueries)}

\* the object getNetworkStats returns when its three sub-queries answer
MkNetworkStats(L) ==
    [latestBlockNumber |-> L.head,
     gasPrice          |-> "1",
     peerCount         |-> 3,
     difficulty        |-> 0,
     totalDifficulty   |-> 0]

\* GetNetworkStatsOutcome failing only when the latest block is not answered
GetNetworkStatsOutcome_BlockOnly(L, out) ==
    IF "getBlock" \in out
    THEN Outcome("Failed to fetch network statistics", NULL, Tail(StatsQueries),
                 <<Latest>>, SelectSeq(StatsQueries, LAMBDA q : q \in out))
    ELSE Outcome(NULL, MkNetworkStats(L), Tail(StatsQueries), <<Latest>>,
                 SelectSeq(StatsQueries, LAMBDA q : q \in out))

\* GetNetworkStatsOutcome with setError(null) forgotten on success
GetNetworkStatsOutcome_KeepError(L, out) ==
    IF out # {}
    THEN Outcome("Failed to fetch network statistics", NULL, Tail(StatsQueries),
                 <<Latest>>, SelectSeq(StatsQueries, LAMBDA q : q \in out))
    ELSE Outcome(error, MkNetworkStats(L), Tail(StatsQueries), <<Latest>>, <<>>)

\* fetchStats: getNetworkStats, whose Promise.all rejects when one sub-query throws
GetNetworkStatsOutcome(L, out) ==
    IF out # {}
    THEN Outcome("Failed to fetch network statistics", NULL, Tail(StatsQueries),
                 <<Latest>>, SelectSeq(StatsQueries, LAMBDA q : q \in out))
    ELSE Outcome(NULL, MkNetworkStats(L), Tail(StatsQueries), <<Latest>>, <<>>)

----------------------------------------------------------------------------
(* The mounted component *)

Views ==
    {"blocks", "recentBlocks", "transactions", "recentTx", "address", "contracts",
     "tx", "block", "stats"}

\* params.id values the address page is opened with ("0xzz" is malformed)
AddressParams == {"0xab", "0xAB", "0xc0", "0xzz"}

\* params.id values of the transaction page of the right shape: of transactions of the first blocks, of
\* no transaction, and one in capitals
WellFormedTxHashes ==
    {HashText(<<0, 0>>), HashText(<<1, 1>>), HashText(<<15, 15>>),
     Padded("A", HashDigits, <<>>)}

\* params.id values of the transaction page of the wrong shape: a digit short, a digit long, a character
\* that is no hexadecimal digit, no 0x in front
MalformedTxHashes ==
    {Padded("0", HashDigits - 1, <<>>), Padded("0", HashDigits + 1, <<>>),
     Padded("0", HashDigits - 1, <<"g">>), [k \in 1..(HashDigits + 2) |-> "0"]}

\* params.id values of the block page that are a decimal height or a hash: heights
\* below and above the head, a height with a leading zero, hashes of a block and of none
WellFormedBlockIds ==
    {<<"0">>, <<"1">>, <<"0", "1">>, <<"9">>, BlockHashText(0), BlockHashText(15)}

\* params.id values of the block page that are neither
MalformedBlockIds == {Latest, <<"x", "y", "z">>, <<"-", "1">>, Padded("0", 2, <<>>)}

\* the params.id values of the address page that are no address
MalformedAddresses == {"0xzz"}

\* what NetworkStats renders of its stats cell: the skeleton while loading, the
\* error box when error is set, the cards otherwise
StatsShown == IF loading \/ error # NULL THEN <<>> ELSE stats

\* "Assume average 10 tx per block"
AvgTxPerBlock == 10

TypeOK ==
    /\ view \in Views
    /\ currentPage \in 1..TxMaxPage
    /\ loading \in BOOLEAN
    /\ effect \in BOOLEAN
    /\ failures.head \in BOOLEAN

\* the cells of the mounted component after its first render
FirstRender ==
    /\ address \in (IF view = "address" THEN AddressParams ELSE {NULL})
    /\ currentPage = 1
    /\ blocks = <<>>
    /\ transactions = <<>>
    /\ contracts = <<>>
    /\ addressDetails = <<>>
    /\ txHash \in (IF view = "tx" THEN WellFormedTxHashes \cup MalformedTxHashes
                   ELSE {NULL})
    /\ blockId \in (IF view = "block" THEN WellFormedBlockIds \cup MalformedBlockIds
                    ELSE {NULL})
    /\ transaction = <<>>
    /\ blockDetails = <<>>
    /\ stats = <<>>
    /\ latestBlockNumber = 0
    /\ totalTransactions = 0
    /\ loading = TRUE
    /\ error = NULL
    /\ effect = TRUE
    /\ requested = <<>>
    /\ calls = <<>>
    /\ failures = NoFailures
    /\ runs = <<>>
    /\ inFlight = 0

\* the state of a component after its first render, before its effect has run
Init ==
    /\ view \in Views
    /\ ledger \in LedgersOf(view)
    /\ FirstRender

\* HeadQueryFailed without the finally block
HeadQueryFailed_NoFinally(msg) ==
    /\ error' = msg
    /\ loading' = loading
    /\ effect' = FALSE
    /\ requested' = <<>>
    /\ calls' = <<"getLatestBlockNumber">>
    /\ failures' = [NoFailures EXCEPT !.head = TRUE]

\* getLatestBlockNumber threw: catch (err) { setError(msg) } finally { setLoading(false) }
HeadQueryFailed(msg) ==
    /\ error' = msg
    /\ loading' = FALSE
    /\ effect' = FALSE
    /\ requested' = <<>>
    /\ calls' = <<"getLatestBlockNumber">>
    /\ failures' = [NoFailures EXCEPT !.head = TRUE]

\* the calls of a finished scan, and finally { setLoading(false) }
Finished(scan) ==
    /\ loading' = FALSE
    /\ effect' = FALSE
    /\ requested' = scan.requested
    /\ calls' = <<"getLatestBlockNumber">>
    /\ failures' = [NoFailures EXCEPT !.blocks = scan.failedBlocks,
                                      !.receipts = scan.failedReceipts,
                                      !.absent = scan.absentReceipts]

\* fetchBlocks of the block listing, for the page of the render that started it
FetchBlocks ==
    /\ view = "blocks"
    /\ effect
    /\ \E out \in Outages(ledger) :
        IF out.head
        THEN /\ HeadQueryFailed("Failed to fetch blocks")
             /\ UNCHANGED <<blocks, latestBlockNumber>>
        ELSE LET scan == BlockWindow(ledger, out,
                                     BlockPageHeights(ledger.head, currentPage))
             IN  /\ latestBlockNumber' = ledger.head
                 /\ Finished(scan)
                 /\ IF scan.threw
                    THEN error' = "Failed to fetch blocks" /\ UNCHANGED blocks
                    ELSE error' = NULL /\ blocks' = scan.list
    /\ UNCHANGED <<runs, inFlight, txHash, blockId, transaction, blockDetails, stats>>
    /\ UNCHANGED <<view, ledger, address, currentPage, transactions, contracts,
                   addressDetails, totalTransactions>>

\* the page count rounded down and one added
BlocksTotalPages_OneMore == (latestBlockNumber + 1) \div BLOCKS_PER_PAGE + 1

\* Math.ceil((latestBlockNumber + 1) / BLOCKS_PER_PAGE)
BlocksTotalPages == (latestBlockNumber + 1 + BLOCKS_PER_PAGE - 1) \div BLOCKS_PER_PAGE

\* the Previous button of the block listing
BlocksPrevious ==
    /\ view = "blocks"
    /\ ~loading /\ error = NULL /\ ~effect
    /\ currentPage # 1
    /\ currentPage' = Max(1, currentPage - 1)
    /\ effect' = TRUE
    /\ UNCHANGED <<runs, inFlight, txHash, blockId, transaction, blockDetails, stats>>
    /\ UNCHANGED <<view, ledger, address, blocks, transactions, contracts,
                   addressDetails, latestBlockNumber, totalTransactions, loading,
                   error, requested, calls, failures>>

\* the Next button of the block listing
BlocksNext ==
    /\ view = "blocks"
    /\ ~loading /\ error = NULL /\ ~effect
    /\ currentPage # BlocksTotalPages
    /\ currentPage < MaxPageVisited
    /\ currentPage' = Min(BlocksTotalPages, currentPage + 1)
    /\ effect' = TRUE
    /\ UNCHANGED <<runs, inFlight, txHash, blockId, transaction, blockDetails, stats>>
    /\ UNCHANGED <<view, ledger, address, blocks, transactions, contracts,
                   addressDetails, latestBlockNumber, totalTransactions, loading,
                   error, requested, calls, failures>>

\* fetchRecentBlocks, on mount and on every interval tick
FetchRecentBlocks ==
    /\ view = "recentBlocks"
    /\ effect
    /\ \E out \in Outages(ledger) :
        IF out.head
        THEN /\ HeadQueryFailed("Failed to fetch recent blocks")
             /\ UNCHANGED blocks
        ELSE LET scan == BlockWindow(ledger, out, RecentBlockHeights(ledger.head))
             IN  /\ Finished(scan)
                 /\ IF scan.threw
                    THEN error' = "Failed to fetch recent blocks" /\ UNCHANGED blocks
                    ELSE error' = NULL /\ blocks' = scan.list
    /\ UNCHANGED <<runs, inFlight, txHash, blockId, transaction, blockDetails, stats>>
    /\ UNCHANGED <<view, ledger, address, currentPage, transactions, contracts,
                   addressDetails, latestBlockNumber, totalTransactions>>

\* fetchTransactions of the transaction listing, for the page of the render that started it
FetchTransactions ==
    /\ view = "transactions"
    /\ effect
    /\ \E out \in Outages(ledger) :
        IF out.head
        THEN /\ HeadQueryFailed("Failed to fetch transactions")
             /\ UNCHANGED <<transactions, totalTransactions>>
        ELSE LET scan == TxPageScan(ledger, out, currentPage)
             IN  /\ Finished(scan)
                 /\ transactions' = scan.list
                 /\ totalTransactions' = ledger.head * AvgTxPerBlock
                 /\ error' = NULL
    /\ UNCHANGED <<runs, inFlight, txHash, blockId, transaction, blockDetails, stats>>
    /\ UNCHANGED <<view, ledger, address, currentPage, blocks, contracts,
                   addressDetails, latestBlockNumber>>

\* the Previous button of the transaction listing
TransactionsPrevious ==
    /\ view = "transactions"
    /\ ~loading /\ error = NULL /\ ~effect
    /\ currentPage # 1
    /\ currentPage' = Max(1, currentPage - 1)
    /\ effect' = TRUE
    /\ UNCHANGED <<runs, inFlight, txHash, blockId, transaction, blockDetails, stats>>
    /\ UNCHANGED <<view, ledger, address, blocks, transactions, contracts,
                   addressDetails, latestBlockNumber, totalTransactions, loading,
                   error, requested, calls, failures>>

\* the Next button of the transaction listing
TransactionsNext ==
    /\ view = "transactions"
    /\ ~loading /\ error = NULL /\ ~effect
    /\ ~(currentPage >= TxMaxPage)
    /\ currentPage < MaxPageVisited
    /\ currentPage' = Min(TxMaxPage, currentPage + 1)
    /\ effect' = TRUE
    /\ UNCHANGED <<runs, inFlight, txHash, blockId, transaction, blockDetails, stats>>
    /\ UNCHANGED <<view, ledger, address, blocks, transactions, contracts,
                   addressDetails, latestBlockNumber, totalTransactions, loading,
                   error, requested, calls, failures>>

\* fetchRecentTransactions, on mount and on every interval tick
FetchRecentTransactions ==
    /\ view = "recentTx"
    /\ effect
    /\ \E out \in Outages(ledger) :
        IF out.head
        THEN /\ HeadQueryFailed("Failed to fetch recent transactions")
             /\ UNCHANGED transactions
        ELSE LET scan == RecentTxScan(ledger, out)
             IN  /\ Finished(scan)
                 /\ IF scan.threw
                    THEN /\ error' = "Failed to fetch recent transactions"
                         /\ UNCHANGED transactions
                    ELSE /\ error' = NULL
                         /\ transactions' = scan.list
    /\ UNCHANGED <<runs, inFlight, txHash, blockId, transaction, blockDetails, stats>>
    /\ UNCHANGED <<view, ledger, address, currentPage, blocks, contracts,
                   addressDetails, latestBlockNumber, totalTransactions>>

\* setInterval(fetch, 15000) of the two recent components, or setInterval(fetchStats,
\* 10000), fires
IntervalTick ==
    /\ view \in {"recentBlocks", "recentTx", "stats"}
    /\ ~effect
    /\ effect' = TRUE
    /\ UNCHANGED <<runs, inFlight, txHash, blockId, transaction, blockDetails, stats>>
    /\ UNCHANGED <<view, ledger, address, currentPage, blocks, transactions, contracts,
                   addressDetails, latestBlockNumber, totalTransactions, loading,
                   error, requested, calls, failures>>

\* fetchAddressDetails, with the fetchTransactions(address) it awaits
FetchAddressDetails ==
    /\ view = "address"
    /\ effect
    /\ \E oa \in AddressOutages(ledger) :
        LET out == oa[1]
            acct == oa[2]
        IN
        IF ~IsValidAddress(address)
        THEN /\ error' = "Invalid address format"
             /\ loading' = FALSE
             /\ effect' = FALSE
             /\ requested' = <<>>
             /\ calls' = <<>>
             /\ failures' = NoFailures
             /\ UNCHANGED <<addressDetails, transactions>>
        ELSE IF acct \in {"balance", "code"}
        THEN /\ error' = "Failed to fetch address details"
             /\ loading' = FALSE
             /\ effect' = FALSE
             /\ requested' = <<>>
             /\ calls' = <<"getBalance", "isContract", "getCode">>
             /\ failures' = [NoFailures EXCEPT !.account = <<acct>>]
             /\ UNCHANGED <<addressDetails, transactions>>
        ELSE /\ addressDetails' = <<MkAddressDetails(address, acct)>>
             /\ error' = NULL
             /\ loading' = FALSE
             /\ effect' = FALSE
             /\ calls' = <<"getBalance", "isContract", "getCode", "getLatestBlockNumber">>
             /\ IF out.head
                THEN /\ requested' = <<>>
                     /\ failures' = [NoFailures EXCEPT !.head = TRUE]
                     /\ UNCHANGED transactions
                ELSE LET scan == AddrScan(ledger, out, address)
                     IN  /\ requested' = scan.requested
                         /\ failures' =
                               [head     |-> FALSE,
                                account  |-> IF acct = "isContract" THEN <<acct>>
                                             ELSE <<>>,
                                blocks   |-> scan.failedBlocks,
                                receipts |-> scan.failedReceipts,
                                absent   |-> scan.absentReceipts,
                                lookup   |-> <<>>]
                         /\ transactions' = scan.list
    /\ UNCHANGED <<runs, inFlight, txHash, blockId, transaction, blockDetails, stats>>
    /\ UNCHANGED <<view, ledger, address, currentPage, blocks, contracts,
                   latestBlockNumber, totalTransactions>>

\* fetchContracts of the contract listing
FetchContracts ==
    /\ view = "contracts"
    /\ effect
    /\ \E out \in Outages(ledger) :
        IF out.head
        THEN /\ HeadQueryFailed("Failed to fetch contracts")
             /\ UNCHANGED contracts
        ELSE LET scan == ContractScan(ledger, out)
             IN  /\ Finished(scan)
                 /\ contracts' = scan.list
                 /\ error' = NULL
    /\ UNCHANGED <<runs, inFlight, txHash, blockId, transaction, blockDetails, stats>>
    /\ UNCHANGED <<view, ledger, address, currentPage, blocks, transactions,
                   addressDetails, latestBlockNumber, totalTransactions>>

\* the end of a lookup: its error, its calls, and finally { setLoading(false) }
Looked(r) ==
    /\ error' = r.error
    /\ loading' = FALSE
    /\ effect' = FALSE
    /\ requested' = r.requested
    /\ calls' = r.calls
    /\ failures' = [NoFailures EXCEPT !.lookup = r.threw]

\* fetchTransaction of the transaction page
FetchTransaction ==
    /\ view = "tx"
    /\ effect
    /\ \E out \in TxLookupOutages :
        LET r == FetchTransactionOutcome(ledger, txHash, out)
        IN  /\ Looked(r)
            /\ transaction' = IF r.error = NULL THEN <<r.value>> ELSE transaction
    /\ UNCHANGED <<view, ledger, address, runs, inFlight, txHash, blockId, currentPage, blocks,
                   transactions, contracts, addressDetails, blockDetails, stats,
                   latestBlockNumber, totalTransactions>>

\* fetchBlock of the block page
FetchBlock ==
    /\ view = "block"
    /\ effect
    /\ \E out \in BlockLookupOutages :
        LET r == FetchBlockOutcome(ledger, blockId, out)
        IN  /\ Looked(r)
            /\ blockDetails' = IF r.error = NULL THEN <<r.value>> ELSE blockDetails
    /\ UNCHANGED <<view, ledger, address, runs, inFlight, txHash, blockId, currentPage, blocks,
                   transactions, contracts, addressDetails, transaction, stats,
                   latestBlockNumber, totalTransactions>>

\* fetchStats of the network statistics, on mount and on every interval tick
FetchStats ==
    /\ view = "stats"
    /\ effect
    /\ \E out \in StatsOutages :
        LET r == GetNetworkStatsOutcome(ledger, out)
        IN  /\ Looked(r)
            /\ stats' = IF r.error = NULL THEN <<r.value>> ELSE stats
    /\ UNCHANGED <<view, ledger, address, runs, inFlight, txHash, blockId, currentPage, blocks,
                   transactions, contracts, addressDetails, transaction, blockDetails,
                   latestBlockNumber, totalTransactions>>

Next ==
    \/ FetchBlocks
    \/ BlocksPrevious
    \/ BlocksNext
    \/ FetchRecentBlocks
    \/ FetchTransactions
    \/ TransactionsPrevious
    \/ TransactionsNext
    \/ FetchRecentTransactions
    \/ IntervalTick
    \/ FetchAddressDetails
    \/ FetchContracts
    \/ FetchTransaction
    \/ FetchBlock
    \/ FetchStats

Spec == Init /\ [][Next]_vars

----------------------------------------------------------------------------
(* The components when every remote call returns or fails: a handler whose    *)
(* effect has been scheduled runs to its end.                                  *)

\* short ledgers, and for the block listing the longest ones (three pages)
LiveInit ==
    /\ Init
    /\ \/ ledger.head <= LiveHead
       \/ view = "blocks" /\ ledger.head >= MaxHead - 1

\* the fetch handler of the mounted component runs to its end: the steps that clear
\* effect are the steps of the nine fetch actions, and one of them is enabled in
\* every state in which effect is set
FetchEnds == effect /\ effect' = FALSE

\* a fetch handler, once started, is not suspended forever
LiveFairness == WF_effect(FetchEnds)

LiveSpec == LiveInit /\ [][Next]_vars /\ LiveFairness

----------------------------------------------------------------------------
(* The six scans on ledgers as long as their block caps and longer *)

\* the views that scan a window of blocks
ScanViews ==
    {"blocks", "recentBlocks", "transactions", "recentTx", "address", "contracts"}

\* the block caps of the scans
BlockCaps == {RecentWindow, BLOCKS_PER_PAGE, TxBlocksToScan, ContractBlocksToScan}

\* ledgers with exactly as many blocks as a cap, with one more, and the longest;
\* their blocks are empty or hold one transaction each
CapLedgers ==
    {MkLedger(h, p, 0, "mixed") :
        h \in {c - 1 : c \in BlockCaps} \cup BlockCaps \cup {DeepHead}, p \in 0..1}

CapInit ==
    /\ view \in ScanViews
    /\ ledger \in CapLedgers
    /\ FirstRender

CapNext ==
    \/ FetchBlocks
    \/ BlocksPrevious
    \/ BlocksNext
    \/ FetchRecentBlocks
    \/ FetchTransactions
    \/ TransactionsPrevious
    \/ TransactionsNext
    \/ FetchRecentTransactions
    \/ IntervalTick
    \/ FetchAddressDetails
    \/ FetchContracts

CapSpec == CapInit /\ [][CapNext]_vars

----------------------------------------------------------------------------
(* One block window with its getBlock calls settling in any order: the first   *)
(* page of the block listing and the recent-blocks component, every call       *)
(* answering.  runs holds the one call of the fetch handler: the heights of    *)
(* its blockPromises in push order, and the heights answered so far in the     *)
(* order of their answers.                                                     *)

\* the sequence s without its element i
Remove(s, i) == SubSeq(s, 1, i - 1) \o SubSeq(s, i + 1, Len(s))

\* height h is among the heights hs
InRun(h, hs) == \E k \in 1..Len(hs) : hs[k] = h

\* Promise.all with the values in the order the promises settled in
PromiseAll_SettleOrder(promises, settled) == settled

\* await Promise.all(promises): the values in the order of the promises array,
\* whatever the order they settled in
PromiseAll(promises, settled) == promises

WindowLedgers == {MkLedger(h, 0, 0, "transfer") : h \in 0..WindowHead}

WindowInit ==
    /\ view \in {"blocks", "recentBlocks"}
    /\ ledger \in WindowLedgers
    /\ FirstRender

\* the handler runs up to await Promise.all(blockPromises), the head query answered
WindowPush ==
    /\ view \in {"blocks", "recentBlocks"}
    /\ effect
    /\ LET heights == IF view = "blocks"
                      THEN BlockPageHeights(ledger.head, currentPage)
                      ELSE RecentBlockHeights(ledger.head)
       IN  /\ runs' = <<[promises |-> heights, settled |-> <<>>, returned |-> FALSE]>>
           /\ inFlight' = Len(heights)
           /\ requested' = heights
    /\ latestBlockNumber' = IF view = "blocks" THEN ledger.head ELSE latestBlockNumber
    /\ loading' = TRUE
    /\ effect' = FALSE
    /\ calls' = <<"getLatestBlockNumber">>
    /\ UNCHANGED <<view, ledger, address, txHash, blockId, currentPage, blocks,
                   transactions, contracts, addressDetails, transaction, blockDetails,
                   stats, totalTransactions, error, failures>>

\* the node answers one of the getBlock calls in flight; with the last answer
\* Promise.all resolves and the handler runs to its end
WindowSettle ==
    /\ runs # <<>>
    /\ \E k \in 1..Len(runs[1].promises) :
        LET h == runs[1].promises[k]
            settled == Append(runs[1].settled, h)
        IN  /\ ~InRun(h, runs[1].settled)
            /\ inFlight' = inFlight - 1
            /\ IF Len(settled) < Len(runs[1].promises)
               THEN /\ runs' = <<[runs[1] EXCEPT !.settled = settled]>>
                    /\ UNCHANGED <<blocks, error, loading>>
               ELSE /\ runs' = <<[runs[1] EXCEPT !.settled = settled, !.returned = TRUE]>>
                    /\ blocks' = BlockWindow(ledger, NoOutage,
                                             PromiseAll(runs[1].promises, settled)).list
                    /\ error' = NULL
                    /\ loading' = FALSE
    /\ UNCHANGED <<view, ledger, address, txHash, blockId, currentPage, transactions,
                   contracts, addressDetails, transaction, blockDetails, stats,
                   latestBlockNumber, totalTransactions, effect, requested, calls,
                   failures>>

WindowNext ==
    \/ WindowPush
    \/ WindowSettle

WindowSpec == WindowInit /\ [][WindowNext]_vars

----------------------------------------------------------------------------
(* The two listings with their fetches in flight: the effect of a render       *)
(* starts a fetch for the page of that render, the fetch returns later, and    *)
(* the page buttons are there whenever the component renders them.  runs       *)
(* holds the page of every fetch that has not returned.                        *)

\* pagination rendered whatever the loading flag and the error
PaginationShown_Always == TRUE

\* the pagination is in the last return of the component, after
\* if (loading) return <skeleton> and if (error) return <error card>
PaginationShown == ~loading /\ error = NULL

PageInit == Init /\ view \in {"blocks", "transactions"}

\* useEffect(() => { fetch...() }, [currentPage]): the handler runs up to its first await
PageFetchStarts ==
    /\ view \in {"blocks", "transactions"}
    /\ effect
    /\ Len(runs) < MaxRuns
    /\ runs' = Append(runs, [page |-> currentPage])
    /\ loading' = TRUE
    /\ effect' = FALSE
    /\ UNCHANGED <<view, ledger, address, txHash, blockId, currentPage, blocks,
                   transactions, contracts, addressDetails, transaction, blockDetails,
                   stats, latestBlockNumber, totalTransactions, error, requested, calls,
                   failures, inFlight>>

\* the rest of fetchBlocks, started for page
BlocksReturn(page, out) ==
    /\ IF out.head
       THEN /\ HeadQueryFailed("Failed to fetch blocks")
            /\ UNCHANGED <<blocks, latestBlockNumber>>
       ELSE LET scan == BlockWindow(ledger, out, BlockPageHeights(ledger.head, page))
            IN  /\ latestBlockNumber' = ledger.head
                /\ Finished(scan)
                /\ IF scan.threw
                   THEN error' = "Failed to fetch blocks" /\ UNCHANGED blocks
                   ELSE error' = NULL /\ blocks' = scan.list
    /\ UNCHANGED <<transactions, totalTransactions>>

\* the rest of fetchTransactions, started for page
TransactionsReturn(page, out) ==
    /\ IF out.head
       THEN /\ HeadQueryFailed("Failed to fetch transactions")
            /\ UNCHANGED <<transactions, totalTransactions>>
       ELSE LET scan == TxPageScan(ledger, out, page)
            IN  /\ Finished(scan)
                /\ transactions' = scan.list
                /\ totalTransactions' = ledger.head * AvgTxPerBlock
                /\ error' = NULL
    /\ UNCHANGED <<blocks, latestBlockNumber>>

\* a fetch in flight returns: of those in flight, any (the effect of a render runs
\* before any answer is handled)
PageFetchReturns ==
    /\ view \in {"blocks", "transactions"}
    /\ \E i \in 1..Len(runs), out \in Outages(ledger) :
        /\ IF view = "blocks" THEN BlocksReturn(runs[i].page, out)
           ELSE TransactionsReturn(runs[i].page, out)
        /\ runs' = Remove(runs, i)
    /\ ~effect
    /\ UNCHANGED <<view, ledger, address, txHash, blockId, currentPage, contracts,
                   addressDetails, transaction, blockDetails, stats, inFlight>>

\* the page count the Next button is limited by
PageLimit == IF view = "blocks" THEN BlocksTotalPages ELSE TxMaxPage

\* the Previous button of a listing
PressPrevious ==
    /\ view \in {"blocks", "transactions"}
    /\ PaginationShown /\ ~effect
    /\ currentPage # 1
    /\ currentPage' = Max(1, currentPage - 1)
    /\ effect' = TRUE
    /\ UNCHANGED <<view, ledger, address, txHash, blockId, blocks, transactions,
                   contracts, addressDetails, transaction, blockDetails, stats,
                   latestBlockNumber, totalTransactions, loading, error, requested,
                   calls, failures, runs, inFlight>>

\* the Next button of a listing
PressNext ==
    /\ view \in {"blocks", "transactions"}
    /\ PaginationShown /\ ~effect
    /\ ~(currentPage >= PageLimit)
    /\ currentPage < MaxPageVisited
    /\ currentPage' = Min(PageLimit, currentPage + 1)
    /\ effect' = TRUE
    /\ UNCHANGED <<view, ledger, address, txHash, blockId, blocks, transactions,
                   contracts, addressDetails, transaction, blockDetails, stats,
                   latestBlockNumber, totalTransactions, loading, error, requested,
                   calls, failures, runs, inFlight>>

PageNext ==
    \/ PageFetchStarts
    \/ PageFetchReturns
    \/ PressPrevious
    \/ PressNext

PageSpec == PageInit /\ [][PageNext]_vars

----------------------------------------------------------------------------
(* One sequential scan followed block by block, and the component unmounted    *)
(* while it runs: the recent-transactions component and the transaction        *)
(* listing.  runs holds the one call of the fetch handler: the outage it       *)
(* meets, how many of its getBlock calls it has issued, and whether its        *)
(* component has been unmounted since it started.                              *)

ScanLedgers == {L \in TxLedgers({"mixed"}) : L.head <= ScanHead}

\* the node answers every call, or the head query throws
ScanOutages == {NoOutage, [NoOutage EXCEPT !.head = TRUE]}

ScanInit ==
    /\ view \in {"recentTx", "transactions"}
    /\ ledger \in ScanLedgers
    /\ FirstRender

\* the getBlock calls the scan of the mounted component makes under outage out,
\* in call order
ScanPlan(out) ==
    IF out.head THEN <<>>
    ELSE IF view = "recentTx" THEN RecentTxScan(ledger, out).requested
    ELSE TxPageScan(ledger, out, currentPage).requested

\* the effect calls the fetch handler, which runs up to its first await
ScanStarts ==
    /\ view \in {"recentTx", "transactions"}
    /\ effect
    /\ \E out \in ScanOutages :
          runs' = <<[out |-> out, issued |-> 0, cancelled |-> FALSE]>>
    /\ loading' = TRUE
    /\ effect' = FALSE
    /\ requested' = <<>>
    /\ calls' = <<"getLatestBlockNumber">>
    /\ UNCHANGED <<view, ledger, address, txHash, blockId, currentPage, blocks,
                   transactions, contracts, addressDetails, transaction, blockDetails,
                   stats, latestBlockNumber, totalTransactions, error, failures,
                   inFlight>>

\* the loop of the scan reaches its next await web3Service.getBlock(blockNumber, true);
\* nothing in the loop asks whether the component is still mounted
ScanIssues ==
    /\ runs # <<>>
    /\ runs[1].issued < Len(ScanPlan(runs[1].out))
    /\ requested' = Append(requested, ScanPlan(runs[1].out)[runs[1].issued + 1])
    /\ runs' = <<[runs[1] EXCEPT !.issued = @ + 1]>>
    /\ UNCHANGED <<view, ledger, address, txHash, blockId, currentPage, blocks,
                   transactions, contracts, addressDetails, transaction, blockDetails,
                   stats, latestBlockNumber, totalTransactions, loading, error, effect,
                   calls, failures, inFlight>>

\* the rest of fetchRecentTransactions
RecentReturn(out) ==
    /\ IF out.head
       THEN /\ HeadQueryFailed("Failed to fetch recent transactions")
            /\ UNCHANGED transactions
       ELSE LET scan == RecentTxScan(ledger, out)
            IN  /\ Finished(scan)
                /\ IF scan.threw
                   THEN /\ error' = "Failed to fetch recent transactions"
                        /\ UNCHANGED transactions
                   ELSE /\ error' = NULL
                        /\ transactions' = scan.list
    /\ UNCHANGED totalTransactions

\* the scan has made its last call and the handler runs to its end; the setState
\* calls of a handler whose component is unmounted change nothing
ScanReturns ==
    /\ runs # <<>>
    /\ runs[1].issued = Len(ScanPlan(runs[1].out))
    /\ ~effect
    /\ runs' = <<>>
    /\ IF runs[1].cancelled
       THEN UNCHANGED <<transactions, totalTransactions, loading, error, effect,
                        requested, calls, failures>>
       ELSE IF view = "recentTx" THEN RecentReturn(runs[1].out)
       ELSE /\ IF runs[1].out.head
               THEN /\ HeadQueryFailed("Failed to fetch transactions")
                    /\ UNCHANGED <<transactions, totalTransactions>>
               ELSE LET scan == TxPageScan(ledger, runs[1].out, currentPage)
                    IN  /\ Finished(scan)
                        /\ transactions' = scan.list
                        /\ totalTransactions' = ledger.head * AvgTxPerBlock
                        /\ error' = NULL
    /\ UNCHANGED <<view, ledger, address, txHash, blockId, currentPage, blocks,
                   contracts, addressDetails, transaction, blockDetails, stats,
                   latestBlockNumber, inFlight>>

\* the component is unmounted while its scan runs: the cleanup of the effect runs
\* (clearInterval in the recent component, none in the listing)
Unmount ==
    /\ runs # <<>>
    /\ ~runs[1].cancelled
    /\ runs' = <<[runs[1] EXCEPT !.cancelled = TRUE]>>
    /\ UNCHANGED <<view, ledger, address, txHash, blockId, currentPage, blocks,
                   transactions, contracts, addressDetails, transaction, blockDetails,
                   stats, latestBlockNumber, totalTransactions, loading, error, effect,
                   requested, calls, failures, inFlight>>

ScanNext ==
    \/ ScanStarts
    \/ ScanIssues
    \/ ScanReturns
    \/ Unmount

ScanSpec == ScanInit /\ [][ScanNext]_vars

----------------------------------------------------------------------------
(* The three components that refresh themselves on a timer *)

\* NetworkStats (every 10 s), RecentBlocks and RecentTransactions (every 15 s)
RefreshViews == {"stats", "recentBlocks", "recentTx"}

RefreshInit == Init /\ view \in RefreshViews

RefreshNext ==
    \/ FetchRecentBlocks
    \/ FetchRecentTransactions
    \/ FetchStats
    \/ IntervalTick

RefreshSpec == RefreshInit /\ [][RefreshNext]_vars

----------------------------------------------------------------------------
(* The recent-blocks component with its remote calls in flight: a call of        *)
(* fetchRecentBlocks is suspended at its two awaits while the node answers, and  *)
(* setInterval calls it again whether or not the earlier calls have returned.    *)

\* ledgers of FlightSpec
FlightLedgers == {MkLedger(h, 0, 0, "transfer") : h \in 0..FlightHead}

\* a call of fetchRecentBlocks suspended at await getLatestBlockNumber(); in phase
\* "blocks" left counts the getBlock calls of its Promise.all not yet answered, and
\* returned tells that its finally block has run
StartedRun == [phase |-> "head", left |-> 1, returned |-> FALSE]

\* what no step of FlightSpec changes
flightFixed ==
    <<view, ledger, address, txHash, blockId, currentPage, transactions, contracts,
      addressDetails, transaction, blockDetails, stats, latestBlockNumber,
      totalTransactions, effect, calls, failures>>

FlightInit ==
    /\ Init
    /\ view = "recentBlocks"
    /\ ledger \in FlightLedgers

\* fetchRecentBlocks is called, by the effect on mount or by setInterval:
\* setLoading(true), and the head query is issued
FlightCall ==
    /\ Len(runs) < MaxRuns
    /\ runs' = Append(runs, StartedRun)
    /\ inFlight' = inFlight + 1
    /\ loading' = TRUE
    /\ UNCHANGED <<blocks, error, requested>>
    /\ UNCHANGED flightFixed

\* the head query of a call is answered: every getBlock of the window is issued
FlightHeadAnswered ==
    /\ \E i \in 1..Len(runs) :
        LET heights == RecentBlockHeights(ledger.head) IN
        /\ runs[i].phase = "head"
        /\ runs' = [runs EXCEPT ![i] = [phase |-> "blocks", left |-> Len(heights),
                                        returned |-> FALSE]]
        /\ inFlight' = inFlight - 1 + Len(heights)
        /\ requested' = heights
    /\ UNCHANGED <<blocks, error, loading>>
    /\ UNCHANGED flightFixed

\* the head query of a call throws: catch, finally, and the call has returned
FlightHeadThrew ==
    /\ \E i \in 1..Len(runs) :
        /\ runs[i].phase = "head"
        /\ runs' = Remove(runs, i)
    /\ inFlight' = inFlight - 1
    /\ error' = "Failed to fetch recent blocks"
    /\ loading' = FALSE
    /\ UNCHANGED <<blocks, requested>>
    /\ UNCHANGED flightFixed

\* one getBlock of a call is answered; with the last one Promise.all resolves
FlightBlockAnswered ==
    /\ \E i \in 1..Len(runs) :
        LET left == runs[i].left - 1 IN
        /\ runs[i].phase = "blocks"
        /\ runs' = IF left = 0 THEN Remove(runs, i)
                   ELSE [runs EXCEPT ![i].left = left]
        /\ IF left = 0 /\ ~runs[i].returned
           THEN /\ blocks' = BlockWindow(ledger, NoOutage,
                                         RecentBlockHeights(ledger.head)).list
                /\ error' = NULL
                /\ loading' = FALSE
           ELSE UNCHANGED <<blocks, error, loading>>
    /\ inFlight' = inFlight - 1
    /\ UNCHANGED requested
    /\ UNCHANGED flightFixed

\* one getBlock of a call throws: Promise.all rejects with the first such throw,
\* while the other calls of the window stay in flight
FlightBlockThrew ==
    /\ \E i \in 1..Len(runs) :
        LET left == runs[i].left - 1 IN
        /\ runs[i].phase = "blocks"
        /\ runs' = IF left = 0 THEN Remove(runs, i)
                   ELSE [runs EXCEPT ![i].left = left, ![i].returned = TRUE]
        /\ IF ~runs[i].returned
           THEN /\ error' = "Failed to fetch recent blocks"
                /\ loading' = FALSE
           ELSE UNCHANGED <<error, loading>>
    /\ inFlight' = inFlight - 1
    /\ UNCHANGED <<blocks, requested>>
    /\ UNCHANGED flightFixed

FlightNext ==
    \/ FlightCall
    \/ FlightHeadAnswered
    \/ FlightHeadThrew
    \/ FlightBlockAnswered
    \/ FlightBlockThrew

FlightSpec == FlightInit /\ [][FlightNext]_vars

----------------------------------------------------------------------------
(* Properties *)

\* the last fetch of the mounted component has completed
Settled == ~effect /\ ~loading

\* the transactions of block h of the ledger
TxsOf(h) == ledger.blocks[h].transactions

\* C1: the address-activity scan and the contract-list scan each return at most 20
\* records, also when one scanned block holds more matches than remain under the limit
C1_ScanWithinLimit ==
    /\ view = "address" => Len(transactions) <= AddrLimit
    /\ view = "contracts" => Len(contracts) <= ContractLimit

\* C2: the recent-transactions scan returns at most 10 records and the
\* transaction-listing scan at most 25
C2_RecentAndPageWithinLimit ==
    /\ view = "recentTx" => Len(transactions) <= RecentLimit
    /\ view = "transactions" => Len(transactions) <= TRANSACTIONS_PER_PAGE

\* a full transaction page cut out of a head block that holds more than a page
C2_Witness ==
    /\ view = "transactions" /\ Settled /\ error = NULL
    /\ currentPage = 1
    /\ Len(TxsOf(ledger.head)) > TRANSACTIONS_PER_PAGE
    /\ Len(transactions) = TRANSACTIONS_PER_PAGE

\* C3: a recent-transactions scan in which a block fetch failed does not end in
\* failure (it returns what the fetched blocks gave)
C3_RecentTxToleratesBlockFailure ==
    (view = "recentTx" /\ Settled /\ ~failures.head /\ failures.blocks # <<>>)
        => error = NULL

\* whether height h is among the elements of the sequence of heights hs
InSeq(h, hs) == \E k \in 1..Len(hs) : hs[k] = h

\* C4: in a block-window fetch the failure of one height does not abort the window:
\* every requested height whose fetch succeeded is in the returned blocks
C4_BlockWindowKeepsFetched ==
    (view \in {"blocks", "recentBlocks"} /\ Settled /\ ~failures.head)
        => \A k \in 1..Len(requested) :
              ~InSeq(requested[k], failures.blocks)
                 => \E j \in 1..Len(blocks) : blocks[j].number = requested[k]

\* C5: on the address page a failed head-height query surfaces as a failure: an
\* empty activity list without an error is shown only when the head query succeeded
C5_AddressHeadFailureSurfaces ==
    (view = "address" /\ Settled /\ failures.head) => error # NULL

\* C6: a windowed scan in which a block or receipt fetch failed ends in a failure
\* (the component state has no other marker of an incomplete result)
C6_FailedSubFetchIsVisible ==
    (/\ view \in {"transactions", "address", "contracts", "recentTx"}
     /\ Settled
     /\ failures.blocks # <<>> \/ failures.receipts # <<>>)
        => error # NULL

\* C7: a transaction page is sorted strictly by (height desc, position desc): no
\* two entries share a (height, position) key
C7_TxPageStrictlySorted ==
    (view = "transactions" /\ Settled)
        => \A k \in 1..(Len(transactions) - 1) :
              CmpBlockThenIndex(transactions[k], transactions[k + 1]) < 0

\* C8: the recent transactions are ordered by (height desc, position desc), also
\* among the transactions of one block
C8_RecentTxNewestFirst ==
    (view = "recentTx" /\ Settled)
        => \A k \in 1..(Len(transactions) - 1) :
              LET a == transactions[k]
                  b == transactions[k + 1]
              IN  \/ a.blockNumber > b.blockNumber
                  \/ a.blockNumber = b.blockNumber /\ a.hash[2] > b.hash[2]

\* C9: the heights one transaction-page scan requests are a contiguous, strictly
\* descending range of non-negative heights bounded by the head
C9_TxPageRequestsContiguous ==
    (view = "transactions" /\ Settled)
        => /\ \A k \in 1..Len(requested) :
                requested[k] >= 0 /\ requested[k] <= ledger.head
           /\ \A k \in 1..(Len(requested) - 1) : requested[k + 1] = requested[k] - 1

\* C10: with every fetch succeeding, page p of the block listing holds exactly the
\* heights H-(p-1)*S down to max(0, H-p*S+1), each once, strictly descending
C10_BlockPageExact ==
    (view = "blocks" /\ Settled /\ error = NULL)
        => LET hi == ledger.head - (currentPage - 1) * BLOCKS_PER_PAGE
               lo == Max(0, ledger.head - currentPage * BLOCKS_PER_PAGE + 1)
           IN  /\ Len(blocks) = Max(0, hi - lo + 1)
               /\ \A k \in 1..Len(blocks) : blocks[k].number = hi - (k - 1)

\* a full second page, adjacent to the first
C10_Witness ==
    /\ view = "blocks" /\ Settled /\ error = NULL
    /\ currentPage = 2
    /\ Len(blocks) = BLOCKS_PER_PAGE
    /\ blocks[1].number = ledger.head - BLOCKS_PER_PAGE

\* the hashes of the records of a list
Hashes(list) == {list[k].hash : k \in 1..Len(list)}

\* the other letter-casings of address a among the addresses of the model
Casings(a) ==
    {b \in {"0xab", "0xAB", "0xcd", "0xCD", "0xef"} \ {a} : ToLowerCase(b) = ToLowerCase(a)}

\* C11: address matching of the address scan ignores case: every listed transaction
\* has sender or recipient equal to the address ignoring case, and when no fetch
\* failed the scan for any other casing of the address lists the same transactions
C11_AddressMatchIgnoresCase ==
    (view = "address" /\ Settled /\ error = NULL /\ ~failures.head)
        => /\ \A k \in 1..Len(transactions) :
                \/ ToLowerCase(transactions[k].from) = ToLowerCase(address)
                \/ /\ transactions[k].to # NULL
                   /\ ToLowerCase(transactions[k].to) = ToLowerCase(address)
           /\ (failures.blocks = <<>> /\ failures.receipts = <<>>)
                => \A other \in Casings(address) :
                      Hashes(AddrScan(ledger, NoOutage, other).list) = Hashes(transactions)

\* the page of 0xab lists a transaction whose sender is spelled 0xAB
C11_Witness ==
    /\ view = "address" /\ Settled /\ error = NULL
    /\ address = "0xab"
    /\ \E k \in 1..Len(transactions) : transactions[k].from = "0xAB"

\* C12: the contract listing never holds two records of the same contract address,
\* also when deployments in two scanned blocks produce the same address
C12_NoDuplicateContract ==
    view = "contracts"
        => \A i, j \in 1..Len(contracts) :
              i # j => contracts[i].address # contracts[j].address

\* two scanned blocks each hold a deployment of the same address, and it is listed
C12_Witness ==
    /\ view = "contracts" /\ Settled /\ error = NULL
    /\ ledger.flavour = "createDup" /\ ledger.head >= 1
    /\ failures.blocks = <<>> /\ failures.receipts = <<>> /\ failures.absent = <<>>
    /\ TxsOf(ledger.head) # <<>> /\ TxsOf(ledger.head - 1) # <<>>
    /\ \E k \in 1..Len(contracts) : contracts[k].address = "0xc0"

\* the heights at which the last contract scan found a deployment of address a:
\* requested blocks that were fetched, receipts that were fetched and present
CandidateHeights(a) ==
    {h \in 0..ledger.head :
        /\ InSeq(h, requested) /\ ~InSeq(h, failures.blocks)
        /\ \E k \in 1..Len(TxsOf(h)) :
              LET tx == TxsOf(h)[k] IN
              /\ tx.to = NULL
              /\ ~InSeq(tx.hash, failures.receipts) /\ ~InSeq(tx.hash, failures.absent)
              /\ Receipt(ledger, tx).contractAddress = a}

C14_RefreshServedFromCache ==
    [][(view = "recentTx" /\ effect /\ ~loading /\ ~effect')
          => /\ requested' = <<>>
             /\ failures' = NoFailures
             /\ transactions' = transactions]_vars

\* C15: in the three transaction scans a transaction whose receipt the ledger does
\* not have is listed all the same, with status 1 and gasUsed 0, and the scan does
\* not fail (in the recent component: a scan none of whose block fetches threw)
C15_MissingReceiptAssumedSuccess ==
    (/\ view \in {"transactions", "recentTx", "address"}
     /\ Settled
     /\ failures.absent # <<>>
     /\ view = "recentTx" => failures.blocks = <<>>)
        => /\ error = NULL
           /\ \A k \in 1..Len(failures.absent) :
                \E j \in 1..Len(transactions) :
                   /\ transactions[j].hash = failures.absent[k]
                   /\ transactions[j].status = 1
                   /\ transactions[j].gasUsed = 0

\* the recent component lists a transaction whose receipt was missing
C15_Witness ==
    /\ view = "recentTx" /\ Settled /\ error = NULL
    /\ failures.absent # <<>>
    /\ \E j \in 1..Len(transactions) :
          transactions[j].hash = failures.absent[1] /\ transactions[j].gasUsed = 0

\* C16: a transaction lookup with a hash that is not 0x and 64 hexadecimal digits,
\* and an address lookup with a malformed address, end with an invalid-input error
\* and without any remote call
C16_MalformedInputRefusedLocally ==
    /\ (view = "tx" /\ Settled /\ txHash \in MalformedTxHashes)
          => /\ error = "Invalid transaction hash format"
             /\ calls = <<>> /\ requested = <<>> /\ failures = NoFailures
    /\ (view = "address" /\ Settled /\ address \in MalformedAddresses)
          => /\ error = "Invalid address format"
             /\ calls = <<>> /\ requested = <<>> /\ failures = NoFailures

\* the transaction page was opened with a hash one digit too long and refused it
C16_Witness ==
    /\ view = "tx" /\ Settled
    /\ txHash = Padded("0", HashDigits + 1, <<>>)
    /\ error = "Invalid transaction hash format"

\* C17: a block lookup with an identifier that is neither a decimal height nor a
\* well-formed block hash ends in an error without any remote call being issued
C17_MalformedBlockIdRefused ==
    (view = "block" /\ Settled /\ blockId \in MalformedBlockIds)
        => error # NULL /\ requested = <<>> /\ calls = <<>>

\* C18: the stats probe is all-or-nothing: when one of its sub-queries throws, the
\* probe ends in the error, the stats cell keeps what it held and nothing of it is
\* shown; when all three answer, their values are stored and shown
C18_StatsProbeAllOrNothing ==
    [][(view = "stats" /\ effect /\ ~effect')
          => IF failures'.lookup # <<>>
             THEN /\ error' = "Failed to fetch network statistics"
                  /\ stats' = stats
                  /\ StatsShown' = <<>>
             ELSE /\ error' = NULL
                  /\ stats' = <<MkNetworkStats(ledger)>>
                  /\ StatsShown' = stats']_vars

\* a probe in which only the peer count threw, after a probe that succeeded
C18_Witness ==
    /\ view = "stats" /\ Settled
    /\ failures.lookup = <<"getPeerCount">>
    /\ error = "Failed to fetch network statistics"
    /\ stats # <<>>

\* C19: a block or transaction lookup with a well-formed identifier the ledger has
\* no record of ends in a not-found error, which is not the error of a thrown
\* remote call, and each remote call of the lookup is made once
C19_NotFoundIsDistinctAndFinal ==
    /\ (/\ view = "tx" /\ Settled /\ txHash \in WellFormedTxHashes
        /\ TxAt(ledger, txHash) = {} /\ failures.lookup = <<>>)
          => /\ error = "Transaction not found"
             /\ calls = <<"getTransaction", "getTransactionReceipt">>
             /\ requested = <<>>
    /\ (/\ view = "block" /\ Settled /\ blockId \in WellFormedBlockIds
        /\ BlocksAt(ledger, blockId) = {} /\ failures.lookup = <<>>)
          => /\ error = "Block not found"
             /\ Len(requested) = 1 /\ calls = <<>>
    /\ (view = "tx" /\ Settled /\ failures.lookup # <<>>)
          => error = "Failed to fetch transaction details"
    /\ (view = "block" /\ Settled /\ failures.lookup # <<>>)
          => error = "Failed to fetch block details"

\* the transaction page was opened with the hash of no transaction
C19_Witness ==
    /\ view = "tx" /\ Settled
    /\ txHash = HashText(<<15, 15>>)
    /\ failures.lookup = <<>>
    /\ error = "Transaction not found"

\* the capacity a limiter would need for one scan alone: the most calls a single
\* scan of the program issues at once (a page of the block listing)
LimiterCapacity == BLOCKS_PER_PAGE

\* C20: the remote calls in flight, summed over the scans running at the same
\* time, never exceed a fixed limiter capacity
C20_InFlightWithinCapacity == inFlight <= LimiterCapacity

\* C28: in every address profile the page builds, the contract flag is true exactly
\* when the code of the address is not "0x", and the code is included exactly when
\* the flag is true, also when a code query failed
C28_ContractFlagMatchesCode ==
    (view = "address" /\ Settled /\ error = NULL)
        => /\ addressDetails[1].isContract = (GetCode(address) # "0x")
           /\ (addressDetails[1].code # NULL) = addressDetails[1].isContract

\* C29: in the block listing the current page is at least 1 and at most
\* ceil((head + 1) / 20), the start height of its window is not negative, and the
\* window holds at least one height
C29_BlockPageInRange ==
    view = "blocks"
        => /\ 1 <= currentPage
           /\ currentPage <= (ledger.head + BLOCKS_PER_PAGE) \div BLOCKS_PER_PAGE
           /\ ledger.head - (currentPage - 1) * BLOCKS_PER_PAGE >= 0
           /\ Len(BlockPageHeights(ledger.head, currentPage)) >= 1

\* the block listing shows its last page, reached with Next, on a ledger whose
\* height is a multiple of the page size less one
C29_Witness ==
    /\ view = "blocks" /\ Settled /\ error = NULL
    /\ ledger.head = 2 * BLOCKS_PER_PAGE - 1
    /\ currentPage = 2
    /\ currentPage = BlocksTotalPages
    /\ Len(blocks) = BLOCKS_PER_PAGE

\* C30: in the transaction listing, on a ledger with a block above the genesis
\* block, the current page stays in 1..100 and does not exceed the displayed page
\* count min(ceil(head * 10 / 25), 100), and the start height
\* head - (currentPage - 1) * 10 of the scanned window is not negative
C30_TxPageInRange ==
    (view = "transactions" /\ Settled /\ error = NULL /\ ledger.head >= 1)
        => /\ currentPage \in 1..TxMaxPage
           /\ currentPage <= Min((ledger.head * AvgTxPerBlock + TRANSACTIONS_PER_PAGE - 1)
                                     \div TRANSACTIONS_PER_PAGE, TxMaxPage)
           /\ ledger.head - (currentPage - 1) * TxPageStride >= 0

\* the scan the mounted component would have run had every remote call answered
UndisturbedScan ==
    CASE view = "transactions" -> TxPageScan(ledger, NoOutage, currentPage)
      [] view = "recentTx" -> RecentTxScan(ledger, NoOutage)
      [] view = "address" -> AddrScan(ledger, NoOutage, address)
      [] OTHER -> ContractScan(ledger, NoOutage)

\* the hash of the transaction a displayed record was made from
RecordTx(r) == IF view = "contracts" THEN r.deploymentTxHash ELSE r.hash

\* the list the mounted scan component displays
Displayed == IF view = "contracts" THEN contracts ELSE transactions

\* C23: in a transaction scan in which only a receipt query threw, the scan ends
\* without error, it requests at least the blocks it would have requested
\* otherwise, in the same order, and the record of every other transaction is
\* displayed exactly as it would have been had the query answered
C23_ReceiptFailureAbsorbed ==
    (/\ view \in {"transactions", "recentTx", "address", "contracts"}
     /\ Settled
     /\ failures.receipts # <<>>
     /\ failures.blocks = <<>> /\ failures.absent = <<>> /\ failures.account = <<>>)
        => /\ error = NULL
           /\ Len(requested) >= Len(UndisturbedScan.requested)
           /\ SubSeq(requested, 1, Len(UndisturbedScan.requested))
                 = UndisturbedScan.requested
           /\ \A k \in 1..Len(UndisturbedScan.list) :
                 LET r == UndisturbedScan.list[k]
                 IN  InSeq(RecordTx(r), failures.receipts) \/ InSeq(r, Displayed)
           /\ \A k \in 1..Len(Displayed) :
                 ~InSeq(RecordTx(Displayed[k]), failures.receipts)

\* the recent component met a failing receipt query for the second transaction of
\* the head block and lists the transactions after it
C23_Witness ==
    /\ view = "recentTx" /\ Settled /\ error = NULL
    /\ Len(TxsOf(ledger.head)) >= 3
    /\ failures.receipts = <<TxsOf(ledger.head)[2].hash>>
    /\ failures.blocks = <<>> /\ failures.absent = <<>>
    /\ \E j \in 1..Len(transactions) : transactions[j].hash = TxsOf(ledger.head)[3].hash

\* the refresh whose thrown calls are f ended in its catch block
RefreshFailed(f) == f.head \/ f.blocks # <<>> \/ f.lookup # <<>>

\* the outage of the receipts of a refresh in which no call threw
ReceiptOutage(f) ==
    [NoOutage EXCEPT !.receipt = IF f.receipts = <<>> THEN NoTx ELSE f.receipts[1],
                     !.absent = IF f.absent = <<>> THEN NoTx ELSE f.absent[1]]

\* C27: in the three timed components every refresh that completes leaves the error
\* set exactly when it failed, a refresh that succeeds replaces the displayed data
\* with its own result, and nothing else changes the error: the error is set only
\* if the refresh that completed last failed
C27_ErrorFollowsLastRefresh ==
    [][(view \in RefreshViews)
          => (IF effect /\ ~effect'
             THEN /\ (error' # NULL) = RefreshFailed(failures')
                  /\ (~RefreshFailed(failures') /\ view = "recentBlocks")
                        => blocks' = BlockWindow(ledger, NoOutage,
                                                 RecentBlockHeights(ledger.head)).list
                  /\ (~RefreshFailed(failures') /\ view = "recentTx")
                        => transactions' =
                               RecentTxScan(ledger, ReceiptOutage(failures')).list
                  /\ (~RefreshFailed(failures') /\ view = "stats")
                        => stats' = <<MkNetworkStats(ledger)>>
             ELSE error' = error)]_vars

\* the recent-blocks component shows the blocks of an earlier refresh under the
\* error of a later one whose head query threw
C27_Witness ==
    /\ view = "recentBlocks" /\ ~effect
    /\ failures.head
    /\ error = "Failed to fetch recent blocks"
    /\ Len(blocks) = RecentWindow

\* C26: every fetch a view starts ends, and ends with the loading flag false,
\* whatever its outcome, when every remote call returns or fails
C26_FetchEndsNotLoading == effect ~> (~effect /\ ~loading)

\* the fetch of the contract listing ended on a head query that threw, not loading
C26_Witness ==
    /\ view = "contracts" /\ ~effect /\ ~loading
    /\ failures.head
    /\ error = "Failed to fetch contracts"

\* the height of the block a displayed record was found in
RecordBlock(r) == IF view = "contracts" THEN r.deploymentBlock ELSE r.blockNumber

\* the record limit of the mounted scan
RecordLimit ==
    CASE view = "transactions" -> TRANSACTIONS_PER_PAGE
      [] view = "recentTx" -> RecentLimit
      [] view = "address" -> AddrLimit
      [] OTHER -> ContractLimit

\* C24: the block fetches of one scan are at most 10 in the two recent components,
\* 20 for a block page, 50 for a transaction page, min(50, head + 1) on the address
\* page and min(100, head + 1) in the contract listing, never more than 100; and
\* the scan had not yet collected its limit of records when it requested its last
\* block
C24_BlockFetchesWithinCap ==
    /\ view \in {"recentTx", "recentBlocks"} => Len(requested) <= RecentWindow
    /\ view = "blocks" => Len(requested) <= BLOCKS_PER_PAGE
    /\ view = "transactions" => Len(requested) <= TxBlocksToScan
    /\ view = "address" => Len(requested) <= Min(AddrBlocksToScan, ledger.head + 1)
    /\ view = "contracts" => Len(requested) <= Min(ContractBlocksToScan, ledger.head + 1)
    /\ Len(requested) <= ContractBlocksToScan
    /\ (/\ view \in {"transactions", "recentTx", "address", "contracts"}
        /\ Settled /\ error = NULL /\ requested # <<>>
        /\ failures.blocks = <<>>)
          => Cardinality({k \in 1..Len(Displayed) :
                             RecordBlock(Displayed[k]) # requested[Len(requested)]})
                < RecordLimit

\* the contract listing scanned an empty ledger of more than 100 blocks and
\* requested exactly 100 of them
C24_Witness ==
    /\ view = "contracts" /\ Settled /\ error = NULL
    /\ ledger.head = DeepHead
    /\ contracts = <<>>
    /\ Len(requested) = ContractBlocksToScan

\* C22: when the concurrently issued block fetches of a window have all been
\* answered, the returned blocks are in descending height order and are the blocks
\* of the window in its own order, whatever the order the answers came in
C22_WindowOrderIndependent ==
    (runs # <<>> /\ runs[1].returned)
        => /\ \A k \in 1..(Len(blocks) - 1) : blocks[k].number > blocks[k + 1].number
           /\ blocks = [k \in 1..Len(requested) |-> FormatBlock(GetBlock(ledger, requested[k]))]
           /\ requested = IF view = "blocks"
                          THEN BlockPageHeights(ledger.head, currentPage)
                          ELSE RecentBlockHeights(ledger.head)

\* the answers of a window of five blocks came in ascending height order
C22_Witness ==
    /\ runs # <<>> /\ runs[1].returned
    /\ Len(blocks) = WindowHead + 1
    /\ \A k \in 1..Len(runs[1].settled) : runs[1].settled[k] = k - 1

\* the outage a fetch met whose thrown calls and absent receipts are f
OutageMet(f) ==
    [head    |-> f.head,
     blocks  |-> {f.blocks[k] : k \in 1..Len(f.blocks)},
     receipt |-> IF f.receipts = <<>> THEN NoTx ELSE f.receipts[1],
     absent  |-> IF f.absent = <<>> THEN NoTx ELSE f.absent[1]]

\* C25: in the two listings, when no fetch is in flight or about to start and the
\* list is displayed, the list is the result of a fetch for the current page, not
\* of a fetch started for a page selected earlier
C25_ListIsOfCurrentPage ==
    (/\ view \in {"blocks", "transactions"}
     /\ runs = <<>> /\ ~effect /\ error = NULL)
        => IF view = "blocks"
           THEN /\ requested = BlockPageHeights(ledger.head, currentPage)
                /\ blocks = BlockWindow(ledger, NoOutage, requested).list
           ELSE /\ requested = TxPageScan(ledger, OutageMet(failures), currentPage).requested
                /\ transactions = TxPageScan(ledger, OutageMet(failures), currentPage).list

\* the block listing shows its second page after the fetch for it returned, the
\* fetch for the first page having returned before Next could be pressed
C25_Witness ==
    /\ view = "blocks" /\ runs = <<>> /\ ~effect /\ ~loading /\ error = NULL
    /\ currentPage = 2
    /\ Len(blocks) >= 1
    /\ blocks[1].number = ledger.head - BLOCKS_PER_PAGE

\* C21: a scan whose component has been unmounted issues no further block fetch
C21_CancelledScanStops ==
    [][(runs # <<>> /\ runs[1].cancelled) => requested' = requested]_vars

====
